---- MODULE Spec2Model ----
(***************************************************************************)
(* A model of rog-core's RogCore controller (src/rog-core/src/rogcore.rs): *)
(* the fan-mode operations, the CPU power step and the FanLevel            *)
(* conversions.  Each public method is one action; the environment (which  *)
(* control files exist, which opens, writes and pstate setters fail) is    *)
(* the variable world, and the effects of the last call are recorded in    *)
(* call, result and trace.                                                 *)
(***************************************************************************)
EXTENDS Integers, Sequences, FiniteSets, TLC

VARIABLES
    config,   \* the caller's in-memory Config (the &mut Config argument)
    store,    \* the persisted form of the Config (what read() reloads)
    world,    \* the environment the calls run in
    call,     \* the last completed call: [op] or [op, n]
    result,   \* what the last call returned
    trace,    \* the effects of the last call, in order
    run,      \* fan_mode before and after each of the latest consecutive steps
    chain     \* conversion development: an input followed by conversion results

vars == <<config, store, world, call, result, trace, run, chain>>

---------------------------------------------------------------------------
(* Bounds and program constants *)

\* fan_mode values and set_fan_mode arguments are drawn from 0..MaxFanMode
MaxFanMode == 3

\* number of entries kept in run
MaxRun == 4

\* the largest u8
U8Max == 255

FAN_TYPE_1_PATH == "/sys/devices/platform/asus-nb-wmi/throttle_thermal_policy"

FAN_TYPE_2_PATH == "/sys/devices/platform/asus-nb-wmi/fan_boost_mode"

AMD_BOOST_PATH == "/sys/devices/system/cpu/cpufreq/boost"

BAT_CHARGE_PATH == "/sys/class/power_supply/BAT0/charge_control_end_threshold"

---------------------------------------------------------------------------
(* FanLevel and its conversions *)

FanLevel == {"Normal", "Boost", "Silent"}

\* From<u8> with the out-of-range codes clamped to the last level
FanLevel_from_u8_Clamp(n) ==
    CASE n = 0 -> "Normal"
      [] n = 1 -> "Boost"
      [] n = 2 -> "Silent"
      [] OTHER -> "Silent"

\* impl From<u8> for FanLevel
FanLevel_from_u8(n) ==
    CASE n = 0 -> "Normal"
      [] n = 1 -> "Boost"
      [] n = 2 -> "Silent"
      [] OTHER -> "Normal"

\* From<FanLevel> with the codes of Boost and Silent exchanged
u8_from_FanLevel_Swapped(l) ==
    CASE l = "Normal" -> 0
      [] l = "Boost" -> 2
      [] l = "Silent" -> 1

\* impl From<FanLevel> for u8
u8_from_FanLevel(l) ==
    CASE l = "Normal" -> 0
      [] l = "Boost" -> 1
      [] l = "Silent" -> 2

\* format!("{:?}", n) of a u8: its decimal digits
Digit(d) ==
    CASE d = 0 -> "0" [] d = 1 -> "1" [] d = 2 -> "2" [] d = 3 -> "3"
      [] d = 4 -> "4" [] d = 5 -> "5" [] d = 6 -> "6" [] d = 7 -> "7"
      [] d = 8 -> "8" [] d = 9 -> "9"

RECURSIVE FormatU8(_)
FormatU8(n) == IF n < 10 THEN Digit(n) ELSE FormatU8(n \div 10) \o Digit(n % 10)

\* Text is a sequence of characters, a character a one-letter string (or the
\* name of a code point outside ASCII).
LowerLetters ==
    <<"a", "b", "c", "d", "e", "f", "g", "h", "i", "j", "k", "l", "m",
      "n", "o", "p", "q", "r", "s", "t", "u", "v", "w", "x", "y", "z">>

UpperLetters ==
    <<"A", "B", "C", "D", "E", "F", "G", "H", "I", "J", "K", "L", "M",
      "N", "O", "P", "Q", "R", "S", "T", "U", "V", "W", "X", "Y", "Z">>

\* char::to_lowercase: an ASCII capital gives its small letter; U+0130 (capital
\* I with dot above) gives i followed by U+0307; U+212A (the Kelvin sign)
\* gives k; every other character of the model's alphabet gives itself.
CharToLowercase(c) ==
    IF \E i \in 1..Len(UpperLetters) : UpperLetters[i] = c
    THEN <<LowerLetters[CHOOSE i \in 1..Len(UpperLetters) : UpperLetters[i] = c]>>
    ELSE IF c = "U+0130" THEN <<"i", "U+0307">>
    ELSE IF c = "U+212A" THEN <<"k">>
    ELSE <<c>>

\* str::to_lowercase
RECURSIVE to_lowercase(_)
to_lowercase(s) ==
    IF s = <<>> THEN <<>> ELSE CharToLowercase(Head(s)) \o to_lowercase(Tail(s))

TextNormal == <<"n", "o", "r", "m", "a", "l">>

TextBoost == <<"b", "o", "o", "s", "t">>

TextSilent == <<"s", "i", "l", "e", "n", "t">>

\* from_str without the to_lowercase
from_str_CaseSensitive(s) ==
    CASE s = TextNormal -> [ok |-> TRUE, v |-> "Normal"]
      [] s = TextBoost  -> [ok |-> TRUE, v |-> "Boost"]
      [] s = TextSilent -> [ok |-> TRUE, v |-> "Silent"]
      [] OTHER          -> [ok |-> FALSE, v |-> "ParseFanLevel"]

\* impl FromStr for FanLevel
from_str(s) ==
    LET l == to_lowercase(s) IN
    CASE l = TextNormal -> [ok |-> TRUE, v |-> "Normal"]
      [] l = TextBoost  -> [ok |-> TRUE, v |-> "Boost"]
      [] l = TextSilent -> [ok |-> TRUE, v |-> "Silent"]
      [] OTHER          -> [ok |-> FALSE, v |-> "ParseFanLevel"]

---------------------------------------------------------------------------
(* The Config collaborator *)

\* The per-profile parameter tables the model draws from.  The percentages
\* of the three profiles differ in every table, every profile has no_turbo
\* true in one table and false in another, and any two profiles differ in
\* no_turbo in some table.
PerfTables ==
    { [normal |-> [min_percentage |-> 0,  max_percentage |-> 100, no_turbo |-> FALSE],
       boost  |-> [min_percentage |-> 50, max_percentage |-> 99,  no_turbo |-> FALSE],
       silent |-> [min_percentage |-> 5,  max_percentage |-> 40,  no_turbo |-> TRUE]],
      [normal |-> [min_percentage |-> 10, max_percentage |-> 90,  no_turbo |-> TRUE],
       boost  |-> [min_percentage |-> 60, max_percentage |-> 95,  no_turbo |-> FALSE],
       silent |-> [min_percentage |-> 1,  max_percentage |-> 30,  no_turbo |-> FALSE]],
      [normal |-> [min_percentage |-> 20, max_percentage |-> 80,  no_turbo |-> FALSE],
       boost  |-> [min_percentage |-> 70, max_percentage |-> 98,  no_turbo |-> TRUE],
       silent |-> [min_percentage |-> 2,  max_percentage |-> 35,  no_turbo |-> FALSE]] }

ChargeLimits == {100}

Configs ==
    [fan_mode : 0..MaxFanMode, bat_charge_limit : ChargeLimits,
     mode_performance : PerfTables]

\* Config::read: reload from the persisted form; the result is the new
\* in-memory Config
ConfigRead(st) == st

\* Config::write: persist the in-memory values; the result is the new
\* persisted form
ConfigWrite(cfg) == cfg

---------------------------------------------------------------------------
(* The environment *)

AllWorlds ==
    [fan1 : BOOLEAN,        \* FAN_TYPE_1_PATH exists
     fan2 : BOOLEAN,        \* FAN_TYPE_2_PATH exists
     fanOpen : BOOLEAN,     \* opening the fan path succeeds
     fanWrite : BOOLEAN,    \* write_all on the fan file succeeds
     pstate : BOOLEAN,      \* intel_pstate::PState::new() is Ok
     minOk : BOOLEAN,       \* set_min_perf_pct succeeds
     maxOk : BOOLEAN,       \* set_max_perf_pct succeeds
     turboOk : BOOLEAN,     \* set_no_turbo succeeds
     boostOpen : BOOLEAN,   \* opening AMD_BOOST_PATH succeeds
     boostWrite : BOOLEAN]  \* write_all on the boost file succeeds

\* A file that does not exist cannot be opened, and one that cannot be opened
\* cannot be written; a machine has the native interface (and then no cpufreq
\* boost file) or lacks it (and then none of its setters).
Consistent(w) ==
    /\ (~w.fan1 /\ ~w.fan2) => ~w.fanOpen
    /\ ~w.fanOpen => ~w.fanWrite
    /\ w.pstate => ~w.boostOpen
    /\ ~w.boostOpen => ~w.boostWrite
    /\ ~w.pstate => (~w.minOk /\ ~w.maxOk /\ ~w.turboOk)

Worlds == {w \in AllWorlds : Consistent(w)}

FanPart(w) == <<w.fan1, w.fan2, w.fanOpen, w.fanWrite>>

CpuPart(w) == <<w.pstate, w.minOk, w.maxOk, w.turboOk, w.boostOpen, w.boostWrite>>

---------------------------------------------------------------------------
(* Results and effects *)

Ok(t) == [result |-> "Ok", trace |-> t]

Err(e, t) == [result |-> e, trace |-> t]

EvOpen(path, ok) == [ev |-> "open", path |-> path, ok |-> ok]

EvWrite(path, data, ok) == [ev |-> "write", path |-> path, data |-> data, ok |-> ok]

EvPct(name, pct, ok) == [ev |-> name, pct |-> pct, ok |-> ok]

EvFlag(name, flag, ok) == [ev |-> name, flag |-> flag, ok |-> ok]

EvConfigRead == [ev |-> "config.read"]

EvConfigWrite == [ev |-> "config.write"]

---------------------------------------------------------------------------
(* RogCore *)

\* get_fan_path falling back to the second path when neither exists
get_fan_path_Fallback(w) ==
    IF w.fan1 THEN [ok |-> TRUE, path |-> FAN_TYPE_1_PATH]
    ELSE [ok |-> TRUE, path |-> FAN_TYPE_2_PATH]

\* get_fan_path probing the second path before the first
get_fan_path_SecondFirst(w) ==
    IF w.fan2 THEN [ok |-> TRUE, path |-> FAN_TYPE_2_PATH]
    ELSE IF w.fan1 THEN [ok |-> TRUE, path |-> FAN_TYPE_1_PATH]
    ELSE [ok |-> FALSE, path |-> ""]

\* RogCore::get_fan_path
get_fan_path(w) ==
    IF w.fan1 THEN [ok |-> TRUE, path |-> FAN_TYPE_1_PATH]
    ELSE IF w.fan2 THEN [ok |-> TRUE, path |-> FAN_TYPE_2_PATH]
    ELSE [ok |-> FALSE, path |-> ""]

\* the native arm with the setters' errors logged instead of propagated
NativeArm_Logged(perf, w) ==
    Ok(<<EvPct("set_min_perf_pct", perf.min_percentage, w.minOk),
         EvPct("set_max_perf_pct", perf.max_percentage, w.maxOk),
         EvFlag("set_no_turbo", perf.no_turbo, w.turboOk)>>)

\* the native arm with the maximum set before the minimum
NativeArm_MaxFirst(perf, w) ==
    LET e1 == EvPct("set_max_perf_pct", perf.max_percentage, w.maxOk)
        e2 == EvPct("set_min_perf_pct", perf.min_percentage, w.minOk)
        e3 == EvFlag("set_no_turbo", perf.no_turbo, w.turboOk)
    IN  IF ~w.maxOk THEN Err("PstateError", <<e1>>)
        ELSE IF ~w.minOk THEN Err("PstateError", <<e1, e2>>)
        ELSE IF ~w.turboOk THEN Err("PstateError", <<e1, e2, e3>>)
        ELSE Ok(<<e1, e2, e3>>)

\* one match arm of the native branch: the three setters, each followed by ?
NativeArm(perf, w) ==
    LET e1 == EvPct("set_min_perf_pct", perf.min_percentage, w.minOk)
        e2 == EvPct("set_max_perf_pct", perf.max_percentage, w.maxOk)
        e3 == EvFlag("set_no_turbo", perf.no_turbo, w.turboOk)
    IN  IF ~w.minOk THEN Err("PstateError", <<e1>>)
        ELSE IF ~w.maxOk THEN Err("PstateError", <<e1, e2>>)
        ELSE IF ~w.turboOk THEN Err("PstateError", <<e1, e2, e3>>)
        ELSE Ok(<<e1, e2, e3>>)

\* the boost value without the inversion
BoostValue_Same(perf) == IF perf.no_turbo THEN "1" ELSE "0"

\* the value one match arm of the AMD branch writes
BoostValue(perf) == IF perf.no_turbo THEN "0" ELSE "1"

\* the AMD arm with the write followed by ? instead of unwrap_or_else
BoostArm_WriteFatal(perf, w) ==
    LET t == <<EvOpen(AMD_BOOST_PATH, TRUE),
               EvWrite(AMD_BOOST_PATH, BoostValue(perf), w.boostWrite)>>
    IN  IF w.boostWrite THEN Ok(t) ELSE Err("IoError", t)

\* one match arm of the AMD branch: write_all(...).unwrap_or_else(log)
BoostArm(perf, w) ==
    Ok(<<EvOpen(AMD_BOOST_PATH, TRUE),
         EvWrite(AMD_BOOST_PATH, BoostValue(perf), w.boostWrite)>>)

\* set_pstate_for_fan_mode trying the boost file when a native setter fails
set_pstate_for_fan_mode_Both(mode, cfg, w) ==
    LET perf == CASE mode = "Normal" -> cfg.mode_performance.normal
                  [] mode = "Boost"  -> cfg.mode_performance.boost
                  [] mode = "Silent" -> cfg.mode_performance.silent
        nat == NativeArm(perf, w)
    IN  IF w.pstate /\ nat.result = "Ok" THEN nat
        ELSE IF ~w.boostOpen
        THEN Err("IoError", (IF w.pstate THEN nat.trace ELSE <<>>)
                            \o <<EvOpen(AMD_BOOST_PATH, FALSE)>>)
        ELSE Ok((IF w.pstate THEN nat.trace ELSE <<>>) \o BoostArm(perf, w).trace)

\* RogCore::set_pstate_for_fan_mode
set_pstate_for_fan_mode(mode, cfg, w) ==
    IF w.pstate
    THEN CASE mode = "Normal" -> NativeArm(cfg.mode_performance.normal, w)
           [] mode = "Boost"  -> NativeArm(cfg.mode_performance.boost, w)
           [] mode = "Silent" -> NativeArm(cfg.mode_performance.silent, w)
    ELSE IF ~w.boostOpen
         THEN Err("IoError", <<EvOpen(AMD_BOOST_PATH, FALSE)>>)
         ELSE CASE mode = "Normal" -> BoostArm(cfg.mode_performance.normal, w)
                [] mode = "Boost"  -> BoostArm(cfg.mode_performance.boost, w)
                [] mode = "Silent" -> BoostArm(cfg.mode_performance.silent, w)

\* the text both fan operations write: format!("{:?}\n", config.fan_mode)
FanText(cfg) == FormatU8(cfg.fan_mode) \o "\n"

\* fan_mode_reload with the fan write followed by ? instead of unwrap_or_else
fan_mode_reload_WriteFatal(cfg, st, w) ==
    LET p == get_fan_path(w) IN
    IF ~p.ok THEN [result |-> "NotFound", trace |-> <<>>, config |-> cfg, store |-> st]
    ELSE IF ~w.fanOpen
    THEN [result |-> "IoError", trace |-> <<EvOpen(p.path, FALSE)>>,
          config |-> cfg, store |-> st]
    ELSE IF ~w.fanWrite
    THEN [result |-> "IoError",
          trace |-> <<EvOpen(p.path, TRUE), EvWrite(p.path, FanText(cfg), FALSE)>>,
          config |-> cfg, store |-> st]
    ELSE LET r == set_pstate_for_fan_mode(FanLevel_from_u8(cfg.fan_mode), cfg, w)
         IN  [result |-> r.result,
              trace |-> <<EvOpen(p.path, TRUE),
                          EvWrite(p.path, FanText(cfg), w.fanWrite)>> \o r.trace,
              config |-> cfg, store |-> st]

\* fan_mode_reload re-reading the configuration first, as
\* bat_charge_limit_reload does
fan_mode_reload_Reread(cfg, st, w) ==
    LET cfg0 == ConfigRead(st)
        p == get_fan_path(w)
    IN
    IF ~p.ok THEN [result |-> "NotFound", trace |-> <<EvConfigRead>>,
                   config |-> cfg0, store |-> st]
    ELSE IF ~w.fanOpen
    THEN [result |-> "IoError", trace |-> <<EvConfigRead, EvOpen(p.path, FALSE)>>,
          config |-> cfg0, store |-> st]
    ELSE LET r == set_pstate_for_fan_mode(FanLevel_from_u8(cfg0.fan_mode), cfg0, w)
         IN  [result |-> r.result,
              trace |-> <<EvConfigRead, EvOpen(p.path, TRUE),
                          EvWrite(p.path, FanText(cfg0), w.fanWrite)>> \o r.trace,
              config |-> cfg0, store |-> st]

\* RogCore::fan_mode_reload: [result, trace, config, store]
fan_mode_reload(cfg, st, w) ==
    LET p == get_fan_path(w) IN
    IF ~p.ok THEN [result |-> "NotFound", trace |-> <<>>, config |-> cfg, store |-> st]
    ELSE IF ~w.fanOpen
    THEN [result |-> "IoError", trace |-> <<EvOpen(p.path, FALSE)>>,
          config |-> cfg, store |-> st]
    ELSE LET r == set_pstate_for_fan_mode(FanLevel_from_u8(cfg.fan_mode), cfg, w)
         IN  [result |-> r.result,
              trace |-> <<EvOpen(p.path, TRUE),
                          EvWrite(p.path, FanText(cfg), w.fanWrite)>> \o r.trace,
              config |-> cfg, store |-> st]

\* set_fan_mode storing and persisting n only once the CPU power step is done
set_fan_mode_PersistLast(n, cfg, st, w) ==
    LET p == get_fan_path(w) IN
    IF ~p.ok THEN [result |-> "NotFound", trace |-> <<>>, config |-> cfg, store |-> st]
    ELSE IF ~w.fanOpen
    THEN [result |-> "IoError", trace |-> <<EvOpen(p.path, FALSE)>>,
          config |-> cfg, store |-> st]
    ELSE LET cfg1 == [cfg EXCEPT !.fan_mode = n]
             r == set_pstate_for_fan_mode(FanLevel_from_u8(n), cfg1, w)
             t == <<EvOpen(p.path, TRUE),
                    EvWrite(p.path, FanText(cfg1), w.fanWrite)>> \o r.trace
         IN  IF r.result = "Ok"
             THEN [result |-> "Ok", trace |-> t \o <<EvConfigWrite>>,
                   config |-> cfg1, store |-> ConfigWrite(cfg1)]
             ELSE [result |-> r.result, trace |-> t, config |-> cfg, store |-> st]

\* RogCore::set_fan_mode: [result, trace, config, store]
set_fan_mode(n, cfg, st, w) ==
    LET p == get_fan_path(w) IN
    IF ~p.ok THEN [result |-> "NotFound", trace |-> <<>>, config |-> cfg, store |-> st]
    ELSE IF ~w.fanOpen
    THEN [result |-> "IoError", trace |-> <<EvOpen(p.path, FALSE)>>,
          config |-> cfg, store |-> st]
    ELSE LET cfg1 == [cfg EXCEPT !.fan_mode = n]
             st1 == ConfigWrite(cfg1)
             r == set_pstate_for_fan_mode(FanLevel_from_u8(n), cfg1, w)
         IN  [result |-> r.result,
              trace |-> <<EvOpen(p.path, TRUE), EvConfigWrite,
                          EvWrite(p.path, FanText(cfg1), w.fanWrite)>> \o r.trace,
              config |-> cfg1, store |-> st1]

\* the wrap-around one step late
StepNumber_Late(n) == IF n < 3 THEN n + 1 ELSE 0

\* the wrap-around of fan_mode_step
StepNumber(n) == IF n < 2 THEN n + 1 ELSE 0

\* fan_mode_step without the re-read of the configuration
fan_mode_step_NoRead(cfg, st, w) ==
    LET n == StepNumber(cfg.fan_mode)
        r == set_fan_mode(n, cfg, st, w)
    IN  [result |-> r.result, trace |-> <<EvConfigRead>> \o r.trace,
         config |-> r.config, store |-> r.store, n |-> n]

\* RogCore::fan_mode_step: [result, trace, config, store, n]
fan_mode_step(cfg, st, w) ==
    LET cfg0 == ConfigRead(st)
        n == StepNumber(cfg0.fan_mode)
        r == set_fan_mode(n, cfg0, st, w)
    IN  [result |-> r.result, trace |-> <<EvConfigRead>> \o r.trace,
         config |-> r.config, store |-> r.store, n |-> n]

---------------------------------------------------------------------------
(* The controller's specification *)

Init ==
    /\ config \in Configs
    /\ store = config
    /\ world \in Worlds
    /\ call = [op |-> "none"]
    /\ result = "None"
    /\ trace = <<>>
    /\ run = <<>>
    /\ chain = <<>>

Record(c, r) ==
    /\ call' = c
    /\ result' = r.result
    /\ trace' = r.trace
    /\ config' = r.config
    /\ store' = r.store

FanModeReload ==
    /\ Record([op |-> "fan_mode_reload"], fan_mode_reload(config, store, world))
    /\ run' = <<>>
    /\ UNCHANGED <<world, chain>>

SetFanMode ==
    \E n \in 0..MaxFanMode :
        /\ Record([op |-> "set_fan_mode", n |-> n], set_fan_mode(n, config, store, world))
        /\ run' = <<>>
        /\ UNCHANGED <<world, chain>>

\* the step passed the opening of the fan path
PastOpen(t) == \E i \in 1..Len(t) : t[i].ev = "open" /\ t[i].ok /\ t[i].path # AMD_BOOST_PATH

Keep(s) == IF Len(s) > MaxRun THEN SubSeq(s, Len(s) - MaxRun + 1, Len(s)) ELSE s

FanModeStep ==
    LET r == fan_mode_step(config, store, world) IN
    /\ Record([op |-> "fan_mode_step", n |-> r.n], r)
    /\ run' = IF PastOpen(r.trace)
              THEN Keep((IF run = <<>> THEN <<store.fan_mode>> ELSE run)
                        \o <<r.store.fan_mode>>)
              ELSE <<>>
    /\ UNCHANGED <<world, chain>>

\* the environment changes between calls: the fan files or the CPU interface
EnvChange ==
    \E w \in Worlds :
        /\ w # world
        /\ FanPart(w) = FanPart(world) \/ CpuPart(w) = CpuPart(world)
        /\ world' = w
        /\ call' = [op |-> "none"]
        /\ result' = "None"
        /\ trace' = <<>>
        /\ UNCHANGED <<config, store, run, chain>>

\* an out-of-band edit of the persisted configuration
ExternalEdit ==
    \E c \in Configs :
        /\ c # store
        /\ store' = c
        /\ call' = [op |-> "none"]
        /\ result' = "None"
        /\ trace' = <<>>
        /\ run' = <<>>
        /\ UNCHANGED <<config, world, chain>>

Next == FanModeReload \/ SetFanMode \/ FanModeStep \/ EnvChange \/ ExternalEdit

Spec == Init /\ [][Next]_vars

---------------------------------------------------------------------------
(* Properties of the controller, under Spec *)

FanOps == {"fan_mode_reload", "set_fan_mode", "fan_mode_step"}

NoFanPath(w) == ~w.fan1 /\ ~w.fan2

\* the fan path is resolved and opened
FanOpens(w) == (w.fan1 \/ w.fan2) /\ w.fanOpen

\* the CPU power step succeeds
CpuStepOk(w) == IF w.pstate THEN w.minOk /\ w.maxOk /\ w.turboOk ELSE w.boostOpen

IsSetter(e) == e.ev \in {"set_min_perf_pct", "set_max_perf_pct", "set_no_turbo"}

IsBoostEv(e) == e.ev \in {"open", "write"} /\ e.path = AMD_BOOST_PATH

IsFanWrite(e) == e.ev = "write" /\ e.path \in {FAN_TYPE_1_PATH, FAN_TYPE_2_PATH}

IsCpuEv(e) == IsSetter(e) \/ IsBoostEv(e)

IsConfigEv(e) == e.ev \in {"config.read", "config.write"}

\* the parameter record of the profile fan_mode m stands for
PerfOf(cfg, m) ==
    IF m = 1 THEN cfg.mode_performance.boost
    ELSE IF m = 2 THEN cfg.mode_performance.silent
    ELSE cfg.mode_performance.normal

\* C1: when neither fan-control path exists, fan_mode_reload and
\* set_fan_mode(n), for every n and every configuration, return NotFound and
\* leave the configuration as it was: config (fan_mode included) and the
\* persisted store are unchanged and no write to a control path, no
\* Config::write and no CPU setter is attempted.
NoFanPathNotFound ==
    [][(NoFanPath(world) /\ call'.op \in {"fan_mode_reload", "set_fan_mode"}) =>
          /\ result' = "NotFound"
          /\ config' = config
          /\ store' = store
          /\ trace' = <<>>]_vars

\* set_fan_mode(n) with n another value than the stored one failed with
\* NotFound where no fan path exists
NoFanPathWitness ==
    /\ NoFanPath(world)
    /\ call.op = "set_fan_mode"
    /\ call.n # config.fan_mode
    /\ result = "NotFound"

\* C2 as stated: whenever set_fan_mode resolved and opened the fan path, it
\* returns success.
SetFanModeOkOnceOpened ==
    (call.op = "set_fan_mode" /\ PastOpen(trace)) => result = "Ok"

\* C2 amended: set_fan_mode(n) returns an error exactly when the fan path
\* cannot be resolved or opened or the CPU power step fails (a native setter
\* is rejected, or the boost file cannot be opened); where the fan path opens
\* and the CPU power step succeeds it returns success, also when the write to
\* the fan path fails.
SetFanModeErrors ==
    call.op = "set_fan_mode" =>
        /\ result = "Ok" <=> (FanOpens(world) /\ CpuStepOk(world))
        /\ result = "NotFound" <=> NoFanPath(world)
        /\ (result = "IoError" /\ world.pstate) => ~FanOpens(world)
        /\ result = "PstateError" => (FanOpens(world) /\ world.pstate)

\* set_fan_mode returned success although its write to the fan path failed
SetFanModeErrorsWitness ==
    /\ call.op = "set_fan_mode"
    /\ FanOpens(world) /\ ~world.fanWrite
    /\ \E i \in 1..Len(trace) : IsFanWrite(trace[i]) /\ ~trace[i].ok
    /\ result = "Ok"

\* C3: in fan_mode_reload and set_fan_mode a failed write to the opened fan
\* path is not propagated: the CPU power step is still performed after it,
\* and the result is that of the CPU power step alone.
FanWriteFailureLogged ==
    (call.op \in {"fan_mode_reload", "set_fan_mode"} /\ FanOpens(world)
     /\ ~world.fanWrite) =>
        /\ \E i \in 1..Len(trace) :
              /\ IsFanWrite(trace[i]) /\ ~trace[i].ok
              /\ \E j \in (i + 1)..Len(trace) : IsCpuEv(trace[j])
        /\ result = IF CpuStepOk(world) THEN "Ok"
                    ELSE IF world.pstate THEN "PstateError" ELSE "IoError"

\* fan_mode_reload returned success after a failed write to the fan path
FanWriteFailureWitness ==
    /\ call.op = "fan_mode_reload"
    /\ FanOpens(world) /\ ~world.fanWrite
    /\ \E i \in 1..Len(trace) : IsFanWrite(trace[i]) /\ ~trace[i].ok
    /\ result = "Ok"

\* C4: with the native interface present the CPU power step calls
\* set_min_perf_pct, set_max_perf_pct, set_no_turbo in that order with the
\* values of the active profile's record; the first setter that fails ends
\* the step with an error and no later setter is called.
NativeSettersInOrder ==
    (call.op \in FanOps /\ FanOpens(world) /\ world.pstate) =>
        LET cpu == SelectSeq(trace, IsCpuEv)
            perf == PerfOf(config, config.fan_mode)
            k == IF ~world.minOk THEN 1 ELSE IF ~world.maxOk THEN 2 ELSE 3
        IN  /\ Len(cpu) = k
            /\ cpu[1] = EvPct("set_min_perf_pct", perf.min_percentage, world.minOk)
            /\ k >= 2 => cpu[2] = EvPct("set_max_perf_pct", perf.max_percentage,
                                         world.maxOk)
            /\ k >= 3 => cpu[3] = EvFlag("set_no_turbo", perf.no_turbo, world.turboOk)
            /\ result = IF world.minOk /\ world.maxOk /\ world.turboOk
                        THEN "Ok" ELSE "PstateError"

\* set_max_perf_pct was rejected (set_no_turbo would be too) and the call
\* ended with the error after two setter calls
NativeSettersWitness ==
    /\ call.op = "set_fan_mode"
    /\ FanOpens(world) /\ world.pstate
    /\ world.minOk /\ ~world.maxOk
    /\ result = "PstateError"
    /\ Len(SelectSeq(trace, IsSetter)) = 2

\* C5: with the native interface absent and the boost file opened, the value
\* written to the boost file is the negation of the active profile's
\* no_turbo: "0" when it is true, "1" when it is false, for each profile
\* with that profile's own record.
BoostIsNotNoTurbo ==
    (call.op \in FanOps /\ FanOpens(world) /\ ~world.pstate /\ world.boostOpen) =>
        LET w == SelectSeq(trace, LAMBDA e : e.ev = "write" /\ e.path = AMD_BOOST_PATH)
            perf == PerfOf(config, config.fan_mode)
        IN  /\ Len(w) = 1
            /\ perf.no_turbo => w[1].data = "0"
            /\ ~perf.no_turbo => w[1].data = "1"

\* Silent with no_turbo set was selected and "0" written to the boost file
BoostIsNotNoTurboWitness ==
    /\ call.op = "set_fan_mode" /\ call.n = 2
    /\ config.mode_performance.silent.no_turbo
    /\ ~config.mode_performance.normal.no_turbo
    /\ ~world.pstate /\ world.boostOpen
    /\ \E i \in 1..Len(trace) :
          trace[i] = EvWrite(AMD_BOOST_PATH, "0", world.boostWrite)

\* C6: for a stored fan_mode in {0,1,2}, fan_mode_step passes
\* (fan_mode + 1) mod 3 to set_fan_mode, and three consecutive fan_mode_step
\* calls that each open the fan path, with no out-of-band edit of the
\* persisted configuration in between, return the stored fan_mode to its
\* original value.
StepIsCyclic ==
    [][/\ (call'.op = "fan_mode_step" /\ store.fan_mode \in {0, 1, 2}) =>
             call'.n = (store.fan_mode + 1) % 3
       /\ \A i \in 1..(Len(run') - 3) :
             run'[i] \in {0, 1, 2} => run'[i + 3] = run'[i]]_vars

\* three consecutive steps from Silent are back at Silent
StepIsCyclicWitness ==
    /\ call.op = "fan_mode_step"
    /\ Len(run) >= 4
    /\ run[Len(run) - 3] = 2
    /\ run[Len(run)] = 2
    /\ store.fan_mode = 2

\* C7: fan_mode_step treats an out-of-range stored fan_mode (n >= 3) as
\* Normal before stepping: it passes the successor of Normal, 1 (Boost), to
\* set_fan_mode.
StepFromOutOfRange ==
    [][(call'.op = "fan_mode_step" /\ store.fan_mode >= 3) => call'.n = 1]_vars

IsFanOpen(e) == e.ev = "open" /\ e.path \in {FAN_TYPE_1_PATH, FAN_TYPE_2_PATH}

\* C11: get_fan_path checks FAN_TYPE_1_PATH, then FAN_TYPE_2_PATH, and gives
\* the first that exists: the first whenever it exists (also when both do),
\* the second exactly when only the second exists, and NotFound exactly when
\* neither exists.  The path it gives is the one its caller opens.
FanPathPriority ==
    call.op \in FanOps =>
        LET opens == SelectSeq(trace, IsFanOpen) IN
        /\ result = "NotFound" <=> NoFanPath(world)
        /\ NoFanPath(world) <=> opens = <<>>
        /\ Len(opens) <= 1
        /\ world.fan1 <=> (opens # <<>> /\ opens[1].path = FAN_TYPE_1_PATH)
        /\ (~world.fan1 /\ world.fan2) <=>
               (opens # <<>> /\ opens[1].path = FAN_TYPE_2_PATH)

\* only the second path exists, and it is the one fan_mode_reload opened
FanPathPriorityWitness ==
    /\ call.op = "fan_mode_reload"
    /\ ~world.fan1 /\ world.fan2
    /\ \E i \in 1..Len(trace) : trace[i] = EvOpen(FAN_TYPE_2_PATH, TRUE)

\* the text of the canonical encoding of the profile fan_mode m stands for
CanonicalText(m) == IF m = 1 THEN "1\n" ELSE IF m = 2 THEN "2\n" ELSE "0\n"

\* C14: the text set_fan_mode(n) and fan_mode_reload write to the fan path is
\* the profile's canonical encoding as one decimal digit and a newline: for
\* every byte n it is encode(decode(n)), one of "0\n", "1\n", "2\n".
FanTextIsEncoding ==
    call.op \in {"fan_mode_reload", "set_fan_mode"} =>
        \A i \in 1..Len(trace) :
            IsFanWrite(trace[i]) =>
                /\ trace[i].data \in {"0\n", "1\n", "2\n"}
                /\ trace[i].data = CanonicalText(config.fan_mode)

\* C15: set_fan_mode(n) acts in the order: open the fan path, store n in
\* config.fan_mode, persist the configuration, write to the fan path, run
\* the CPU power step.  So whenever it fails in the CPU power step,
\* config.fan_mode is n and has been persisted.
SetFanModeOrder ==
    (call.op = "set_fan_mode" /\ FanOpens(world)) =>
        /\ Len(trace) >= 4
        /\ IsFanOpen(trace[1]) /\ trace[1].ok
        /\ trace[2] = EvConfigWrite
        /\ IsFanWrite(trace[3])
        /\ \A i \in 4..Len(trace) : IsCpuEv(trace[i])
        /\ config.fan_mode = call.n
        /\ store = config

\* set_fan_mode(n) failed in the CPU power step with n stored and persisted
SetFanModeOrderWitness ==
    /\ call.op = "set_fan_mode"
    /\ FanOpens(world) /\ ~CpuStepOk(world)
    /\ result \in {"PstateError", "IoError"}
    /\ config.fan_mode = call.n /\ store.fan_mode = call.n
    /\ trace[2] = EvConfigWrite

\* C16: fan_mode_step reloads the configuration from the persisted store
\* before anything else, and the successor it passes to set_fan_mode is
\* computed from the reloaded fan_mode, not from the in-memory value held
\* before the call; the reload happens also when set_fan_mode then fails to
\* resolve the fan path.
StepReloadsFirst ==
    [][call'.op = "fan_mode_step" =>
          /\ trace' # <<>> /\ trace'[1] = EvConfigRead
          /\ \A i \in 2..Len(trace') : trace'[i] # EvConfigRead
          /\ store.fan_mode \in {0, 1, 2} => call'.n = (store.fan_mode + 1) % 3
          /\ config'.mode_performance = store.mode_performance
          /\ config'.bat_charge_limit = store.bat_charge_limit
          /\ ~FanOpens(world) => (config' = store /\ store' = store)
          /\ FanOpens(world) => config'.fan_mode = call'.n]_vars

\* fan_mode_step reloaded the configuration although no fan path exists
StepReloadsFirstWitness ==
    /\ call.op = "fan_mode_step"
    /\ NoFanPath(world)
    /\ result = "NotFound"
    /\ trace = <<EvConfigRead>>
    /\ config = store

\* C17: in the boost-fallback branch of the CPU power step a failure to open
\* the boost file is an error returned by fan_mode_reload and set_fan_mode,
\* while a failed write to the opened boost file is only logged and the call
\* returns success.
BoostOpenFatalWriteLogged ==
    (call.op \in {"fan_mode_reload", "set_fan_mode"} /\ FanOpens(world)
     /\ ~world.pstate) =>
        LET b == SelectSeq(trace, IsBoostEv) IN
        /\ ~world.boostOpen =>
               (result = "IoError" /\ b = <<EvOpen(AMD_BOOST_PATH, FALSE)>>)
        /\ world.boostOpen =>
               /\ result = "Ok"
               /\ Len(b) = 2
               /\ b[1] = EvOpen(AMD_BOOST_PATH, TRUE)
               /\ b[2].ev = "write" /\ b[2].ok = world.boostWrite

\* the write to the opened boost file failed and set_fan_mode returned success
BoostWriteLoggedWitness ==
    /\ call.op = "set_fan_mode"
    /\ FanOpens(world) /\ ~world.pstate /\ world.boostOpen /\ ~world.boostWrite
    /\ \E i \in 1..Len(trace) : IsBoostEv(trace[i]) /\ trace[i].ev = "write"
                                  /\ ~trace[i].ok
    /\ result = "Ok"

\* C18: the two CPU power mechanisms exclude each other within one call:
\* either native setters are called or the boost file is opened and written,
\* never both; when the native interface is there and one of its setters
\* fails, the boost file is not touched.
MechanismsExclusive ==
    call.op \in FanOps =>
        LET s == SelectSeq(trace, IsSetter)
            b == SelectSeq(trace, IsBoostEv)
        IN  /\ s = <<>> \/ b = <<>>
            /\ (FanOpens(world) /\ world.pstate) => (s # <<>> /\ b = <<>>)
            /\ (FanOpens(world) /\ ~world.pstate) => (s = <<>> /\ b # <<>>)

\* a native setter failed in fan_mode_reload and the boost file was left alone
MechanismsExclusiveWitness ==
    /\ call.op = "fan_mode_reload"
    /\ FanOpens(world) /\ world.pstate /\ ~world.minOk
    /\ result = "PstateError"
    /\ SelectSeq(trace, IsSetter) # <<>>
    /\ SelectSeq(trace, IsBoostEv) = <<>>

\* C19: fan_mode_reload never changes the configuration: whatever the
\* outcome, config (fan_mode, bat_charge_limit, the per-profile parameters)
\* and the persisted store are unchanged and neither Config::read nor
\* Config::write is called; the CPU parameters it applies are those of
\* decode(config.fan_mode).
ReloadKeepsConfig ==
    [][call'.op = "fan_mode_reload" =>
          /\ config' = config
          /\ store' = store
          /\ \A i \in 1..Len(trace') : ~IsConfigEv(trace'[i])
          /\ LET perf == PerfOf(config, config.fan_mode) IN
             \A i \in 1..Len(trace') :
                 /\ trace'[i].ev = "set_min_perf_pct" =>
                        trace'[i].pct = perf.min_percentage
                 /\ trace'[i].ev = "set_max_perf_pct" =>
                        trace'[i].pct = perf.max_percentage
                 /\ trace'[i].ev = "set_no_turbo" => trace'[i].flag = perf.no_turbo
                 /\ (trace'[i].ev = "write" /\ IsBoostEv(trace'[i])) =>
                        trace'[i].data = (IF perf.no_turbo THEN "0" ELSE "1")]_vars

\* fan_mode_reload failed in the CPU power step with an in-memory
\* configuration other than the persisted one, which it left alone
ReloadKeepsConfigWitness ==
    /\ call.op = "fan_mode_reload"
    /\ result = "PstateError"
    /\ config.fan_mode # store.fan_mode
    /\ config.mode_performance # store.mode_performance

---------------------------------------------------------------------------
(* The conversions' specification: an input, then the conversions that     *)
(* apply to the latest value, one after the other                          *)

\* number of values in a chain
MaxChain == 4

U8Val(n) == [k |-> "u8", v |-> n]

LevelVal(l) == [k |-> "level", v |-> l]

TextVal(s) == [k |-> "text", v |-> s]

ErrVal(e) == [k |-> "err", v |-> e]

\* the capital of a small letter
Capital(c) == UpperLetters[CHOOSE i \in 1..Len(LowerLetters) : LowerLetters[i] = c]

\* the text w with the letters at the places in m as capitals
Cased(w, m) == [i \in 1..Len(w) |-> IF i \in m THEN Capital(w[i]) ELSE w[i]]

CaseVariants(w) == {Cased(w, m) : m \in SUBSET (1..Len(w))}

\* texts that are no profile name, in small letters
OtherWords ==
    { <<>>, <<"n">>, <<"n", "o", "r", "m", "a">>,
      <<"n", "o", "r", "m", "a", "l", "l">>,
      <<"n", "o", "r", "m", "a", "l", "s">>,
      <<"b", "o", "o", "t", "s">>, <<"b", "o", "s", "t">>,
      <<"s", "i", "l", "e", "n", "c", "e">>, <<"s", "i", "l", "e", "n">>,
      <<"q", "u", "i", "e", "t">>, <<"t", "u", "r", "b", "o">> }

\* texts with characters that are no letters, or no ASCII
OtherTexts ==
    { <<"0">>, <<"1">>, <<"2">>, <<" ">>,
      <<"n", "o", "r", "m", "a", "l", " ">>, <<" ", "b", "o", "o", "s", "t">>,
      <<"s", "i", "l", "e", "n", "t", "\n">>,
      <<"s", "U+0130", "l", "e", "n", "t">>, <<"S", "U+0130", "L", "E", "N", "T">>,
      <<"U+017F", "i", "l", "e", "n", "t">>, <<"U+212A", "o", "o", "s", "t">>,
      <<"n", "0", "r", "m", "a", "l">> }

ParseInputs ==
    UNION {CaseVariants(w) : w \in {TextNormal, TextBoost, TextSilent} \cup OtherWords}
    \cup OtherTexts

Latest == chain[Len(chain)]

InitConv ==
    /\ \/ \E n \in 0..U8Max : chain = <<U8Val(n)>>
       \/ \E l \in FanLevel : chain = <<LevelVal(l)>>
       \/ \E s \in ParseInputs : chain = <<TextVal(s)>>
    /\ config = CHOOSE c \in Configs : c.fan_mode = 0
    /\ store = config
    /\ world = CHOOSE w \in Worlds : w.fan1 /\ w.fanWrite /\ w.pstate /\ w.turboOk
    /\ call = [op |-> "none"]
    /\ result = "None"
    /\ trace = <<>>
    /\ run = <<>>

Decode ==
    /\ Len(chain) < MaxChain
    /\ Latest.k = "u8"
    /\ chain' = Append(chain, LevelVal(FanLevel_from_u8(Latest.v)))
    /\ UNCHANGED <<config, store, world, call, result, trace, run>>

Encode ==
    /\ Len(chain) < MaxChain
    /\ Latest.k = "level"
    /\ chain' = Append(chain, U8Val(u8_from_FanLevel(Latest.v)))
    /\ UNCHANGED <<config, store, world, call, result, trace, run>>

Parse ==
    /\ Len(chain) < MaxChain
    /\ Latest.k = "text"
    /\ LET r == from_str(Latest.v) IN
         chain' = Append(chain, IF r.ok THEN LevelVal(r.v) ELSE ErrVal(r.v))
    /\ UNCHANGED <<config, store, world, call, result, trace, run>>

NextConv == Decode \/ Encode \/ Parse

SpecConv == InitConv /\ [][NextConv]_vars

---------------------------------------------------------------------------
(* Properties of the conversions, under SpecConv *)

\* C8: decode (u8 -> FanLevel) is total: every byte 0..255 that is decoded
\* gives a FanLevel, 0 gives Normal, 1 Boost, 2 Silent and every byte >= 3
\* Normal; the conversion applies to every byte (it never fails).
DecodeTotal ==
    /\ \A i \in 1..(Len(chain) - 1) :
          chain[i].k = "u8" =>
              /\ chain[i + 1].k = "level"
              /\ chain[i + 1].v \in FanLevel
              /\ chain[i].v = 0 => chain[i + 1].v = "Normal"
              /\ chain[i].v = 1 => chain[i + 1].v = "Boost"
              /\ chain[i].v = 2 => chain[i + 1].v = "Silent"
              /\ chain[i].v >= 3 => chain[i + 1].v = "Normal"
    /\ (Len(chain) < MaxChain /\ Latest.k = "u8") => ENABLED Decode

\* the largest byte has been decoded, to Normal
DecodeTotalWitness ==
    /\ Len(chain) >= 2
    /\ chain[1].k = "u8"
    /\ chain[1].v = U8Max
    /\ chain[2] = LevelVal("Normal")

\* C9: encode gives Normal 0, Boost 1, Silent 2; decode(encode(p)) = p for
\* every profile p; for every byte n in {0,1,2}, encode(decode(n)) = n and
\* decode(encode(decode(n))) = decode(n).
RoundTrip ==
    \A i \in 1..(Len(chain) - 1) :
        /\ (chain[i].k = "level" /\ chain[i + 1].k = "u8") =>
               /\ chain[i].v = "Normal" => chain[i + 1].v = 0
               /\ chain[i].v = "Boost" => chain[i + 1].v = 1
               /\ chain[i].v = "Silent" => chain[i + 1].v = 2
        /\ (i + 2 <= Len(chain) /\ chain[i].k = "level") => chain[i + 2] = chain[i]
        /\ (i + 2 <= Len(chain) /\ chain[i].k = "u8" /\ chain[i].v \in {0, 1, 2}) =>
               chain[i + 2] = chain[i]
        /\ (i + 3 <= Len(chain) /\ chain[i].k = "u8" /\ chain[i].v \in {0, 1, 2}) =>
               chain[i + 3] = chain[i + 1]

\* Silent has been encoded and decoded again
RoundTripWitness ==
    /\ Len(chain) = 3
    /\ chain[1].k = "level" /\ chain[1].v = "Silent"
    /\ chain[2].k = "u8" /\ chain[2].v = 2
    /\ chain[3].k = "level" /\ chain[3].v = "Silent"

\* s is w with some of its letters as capitals
IsCaseVariant(s, w) ==
    /\ Len(s) = Len(w)
    /\ \A i \in 1..Len(w) : s[i] = w[i] \/ s[i] = Capital(w[i])

\* C10: parse (from_str) succeeds for every upper/lower-case variant of
\* "normal", "boost" and "silent" with the matching profile; for every other
\* text it fails with ParseFanLevel and gives no profile.
ParseContract ==
    \A i \in 1..(Len(chain) - 1) :
        chain[i].k = "text" =>
            LET s == chain[i].v
                r == chain[i + 1]
            IN  /\ IsCaseVariant(s, TextNormal) => r = LevelVal("Normal")
                /\ IsCaseVariant(s, TextBoost) => r = LevelVal("Boost")
                /\ IsCaseVariant(s, TextSilent) => r = LevelVal("Silent")
                /\ (~IsCaseVariant(s, TextNormal) /\ ~IsCaseVariant(s, TextBoost)
                    /\ ~IsCaseVariant(s, TextSilent)) => r = ErrVal("ParseFanLevel")

\* "BoOsT" has been parsed, to Boost
ParseContractWitness ==
    /\ Len(chain) = 2
    /\ chain[1].k = "text"
    /\ chain[1].v = <<"B", "o", "O", "s", "T">>
    /\ chain[2] = LevelVal("Boost")

---------------------------------------------------------------------------
(* The wireless toggle: toggle_airplane_mode and its specification.  Here   *)
(* world is what rfkill does: whether "rfkill list" runs, whether it exits  *)
(* with success, the chunks of bytes it prints, and whether a further       *)
(* rfkill can be spawned.                                                   *)

\* number of chunks of output
MaxChunks == 3

\* The chunks the listing's output is put together from; "0xFF" is a byte
\* that no UTF-8 text holds.
Chunks ==
    { <<":", " ", "y", "e">>, <<"s">>, <<":", " ", "y", "e", "s">>,
      <<":", " ", "n", "o">>, <<":", "y", "e", "s">>, <<":", " ", "Y", "e", "s">>,
      <<"w", "i", "f", "i">>, <<"\n">>, <<"0xFF">> }

RECURSIVE Flatten(_)
Flatten(cs) == IF cs = <<>> THEN <<>> ELSE Head(cs) \o Flatten(Tail(cs))

RadioWorlds ==
    {w \in [listRuns : BOOLEAN, listSuccess : BOOLEAN, spawnOk : BOOLEAN,
            chunks : {<<>>}] : w.listRuns \/ ~w.listSuccess}

\* String::from_utf8
from_utf8(bytes) ==
    IF \E i \in 1..Len(bytes) : bytes[i] = "0xFF"
    THEN [ok |-> FALSE, v |-> <<>>]
    ELSE [ok |-> TRUE, v |-> bytes]

\* str::contains
contains(s, pat) ==
    \E i \in 1..(Len(s) - Len(pat) + 1) : SubSeq(s, i, i + Len(pat) - 1) = pat

\* the pattern of a soft-blocked device
Needle == <<":", " ", "y", "e", "s">>

EvOutput(args, ok) == [ev |-> "output", args |-> args, ok |-> ok]

EvSpawn(args, ok) == [ev |-> "spawn", args |-> args, ok |-> ok]

EvWarn(msg) == [ev |-> "warn", msg |-> msg]

\* the warning a failed spawn is mapped to
SpawnWarn(ok, msg) == IF ok THEN <<>> ELSE <<EvWarn(msg)>>

\* toggle_airplane_mode reading the listing whatever its exit status
toggle_airplane_mode_AnyStatus(w) ==
    IF ~w.listRuns
    THEN <<EvOutput(<<"rfkill", "list">>, FALSE), EvWarn("Could not list rf devices")>>
    ELSE LET out == from_utf8(Flatten(w.chunks)) IN
         <<EvOutput(<<"rfkill", "list">>, TRUE)>> \o
         (IF ~out.ok THEN <<>>
          ELSE IF contains(out.v, Needle)
          THEN <<EvSpawn(<<"rfkill", "unblock", "all">>, w.spawnOk)>>
               \o SpawnWarn(w.spawnOk, "Could not unblock rf devices")
          ELSE <<EvSpawn(<<"rfkill", "block", "all">>, w.spawnOk)>>
               \o SpawnWarn(w.spawnOk, "Could not block rf devices"))

\* RogCore::toggle_airplane_mode: its effects
toggle_airplane_mode(w) ==
    IF ~w.listRuns
    THEN <<EvOutput(<<"rfkill", "list">>, FALSE), EvWarn("Could not list rf devices")>>
    ELSE IF ~w.listSuccess
    THEN <<EvOutput(<<"rfkill", "list">>, TRUE), EvWarn("Could not list rf devices")>>
    ELSE LET out == from_utf8(Flatten(w.chunks)) IN
         <<EvOutput(<<"rfkill", "list">>, TRUE)>> \o
         (IF ~out.ok THEN <<>>
          ELSE IF contains(out.v, Needle)
          THEN <<EvSpawn(<<"rfkill", "unblock", "all">>, w.spawnOk)>>
               \o SpawnWarn(w.spawnOk, "Could not unblock rf devices")
          ELSE <<EvSpawn(<<"rfkill", "block", "all">>, w.spawnOk)>>
               \o SpawnWarn(w.spawnOk, "Could not block rf devices"))

InitRadio ==
    /\ world \in RadioWorlds
    /\ config = CHOOSE c \in Configs : c.fan_mode = 0
    /\ store = config
    /\ call = [op |-> "none"]
    /\ result = "None"
    /\ trace = <<>>
    /\ run = <<>>
    /\ chain = <<>>

ToggleAirplaneMode ==
    /\ call' = [op |-> "toggle_airplane_mode"]
    /\ result' = "Unit"
    /\ trace' = toggle_airplane_mode(world)
    /\ UNCHANGED <<config, store, world, run, chain>>

Forget ==
    /\ call' = [op |-> "none"]
    /\ result' = "None"
    /\ trace' = <<>>

\* rfkill prints one more chunk
RadioPrints ==
    \E c \in Chunks :
        /\ world.listRuns
        /\ Len(world.chunks) < MaxChunks
        /\ world' = [world EXCEPT !.chunks = Append(@, c)]
        /\ Forget
        /\ UNCHANGED <<config, store, run, chain>>

\* rfkill behaves otherwise: the output starts afresh
RadioChange ==
    \E w \in RadioWorlds :
        /\ w # world
        /\ world' = w
        /\ Forget
        /\ UNCHANGED <<config, store, run, chain>>

NextRadio == ToggleAirplaneMode \/ RadioPrints \/ RadioChange

SpecRadio == InitRadio /\ [][NextRadio]_vars

(* Properties of the wireless toggle, under SpecRadio *)

IsRadioCommand(e) == e.ev = "spawn"

\* the bytes hold ": yes"
HoldsYes(b) ==
    \E i \in 1..(Len(b) - 4) :
        /\ b[i] = ":" /\ b[i + 1] = " "
        /\ b[i + 2] = "y" /\ b[i + 3] = "e" /\ b[i + 4] = "s"

IsUtf8(b) == \A i \in 1..Len(b) : b[i] # "0xFF"

Listed(w) == w.listRuns /\ w.listSuccess

\* C12 as stated: toggle_airplane_mode issues at most one command after the
\* listing: "unblock all" if the listing succeeded and its output holds
\* ": yes", "block all" if the listing succeeded and its output holds no
\* ": yes", and none if the listing fails to run or exits non-zero.
ToggleAsStated ==
    call.op = "toggle_airplane_mode" =>
        LET cmds == SelectSeq(trace, IsRadioCommand)
            b == Flatten(world.chunks)
        IN  /\ Len(cmds) <= 1
            /\ (Listed(world) /\ HoldsYes(b)) =>
                   (Len(cmds) = 1 /\ cmds[1].args = <<"rfkill", "unblock", "all">>)
            /\ (Listed(world) /\ ~HoldsYes(b)) =>
                   (Len(cmds) = 1 /\ cmds[1].args = <<"rfkill", "block", "all">>)
            /\ ~Listed(world) => cmds = <<>>

\* C12 amended: as stated, where the listing's output is valid UTF-8; if the
\* listing fails to run, exits non-zero or prints bytes that are no valid
\* UTF-8, no command is issued.
ToggleCommands ==
    call.op = "toggle_airplane_mode" =>
        LET cmds == SelectSeq(trace, IsRadioCommand)
            b == Flatten(world.chunks)
        IN  /\ Len(cmds) <= 1
            /\ (Listed(world) /\ IsUtf8(b) /\ HoldsYes(b)) =>
                   (Len(cmds) = 1 /\ cmds[1].args = <<"rfkill", "unblock", "all">>)
            /\ (Listed(world) /\ IsUtf8(b) /\ ~HoldsYes(b)) =>
                   (Len(cmds) = 1 /\ cmds[1].args = <<"rfkill", "block", "all">>)
            /\ (~Listed(world) \/ ~IsUtf8(b)) => cmds = <<>>

\* a listing that exited non-zero printed ": yes", split over two chunks, and
\* no command was issued
ToggleCommandsWitness ==
    /\ call.op = "toggle_airplane_mode"
    /\ world.listRuns /\ ~world.listSuccess
    /\ world.chunks = << <<"w", "i", "f", "i">>, <<":", " ", "y", "e">>, <<"s">> >>
    /\ SelectSeq(trace, IsRadioCommand) = <<>>

---------------------------------------------------------------------------
(* The battery charge limit: set_charge_limit, bat_charge_limit_reload and  *)
(* the specification of the two operations that assign to the Config.      *)
(* Here world has, besides the fan files and the CPU interface, the charge  *)
(* limit file.                                                              *)

\* the limits the model draws from: both sides of each end of the nominal
\* range 20..100, and the largest byte
ChargeValues == {19, 20, 100, 101, U8Max}

ChargeConfigs ==
    [fan_mode : 0..MaxFanMode, bat_charge_limit : ChargeValues,
     mode_performance : {(CHOOSE c \in Configs : c.fan_mode = 0).mode_performance}]

\* Machines with the first fan path or none, and with the native interface
\* (sound, or rejecting the maximum) or with a sound boost file; the charge
\* limit file opens or not, and if it opens a write to it succeeds or not.
ChargeWorlds ==
    {w \in [fan1 : BOOLEAN, fan2 : {FALSE}, fanOpen : BOOLEAN, fanWrite : BOOLEAN,
            pstate : BOOLEAN, minOk : BOOLEAN, maxOk : BOOLEAN, turboOk : BOOLEAN,
            boostOpen : BOOLEAN, boostWrite : BOOLEAN,
            batOpen : BOOLEAN, batWrite : BOOLEAN] :
        /\ Consistent(w)
        /\ w.pstate => (w.minOk /\ w.turboOk)
        /\ ~w.pstate => (w.boostOpen /\ w.boostWrite)
        /\ ~w.batOpen => ~w.batWrite}

BatPart(w) == <<w.batOpen, w.batWrite>>

\* the warning of the range check
RangeWarn(limit) ==
    IF limit < 20 \/ limit > 100
    THEN <<EvWarn("Unable to set battery charge limit, must be between 20-100")>>
    ELSE <<>>

\* set_charge_limit refusing a limit outside 20..100
set_charge_limit_Reject(limit, cfg, st, w) ==
    IF limit < 20 \/ limit > 100
    THEN [result |-> "InvalidInput", trace |-> RangeWarn(limit),
          config |-> cfg, store |-> st]
    ELSE IF ~w.batOpen
    THEN [result |-> "IoError",
          trace |-> <<EvOpen(BAT_CHARGE_PATH, FALSE),
                      EvWarn("Failed to open battery charge limit path")>>,
          config |-> cfg, store |-> st]
    ELSE LET cfg1 == [cfg EXCEPT !.bat_charge_limit = limit]
         IN  [result |-> "Ok",
              trace |-> <<EvOpen(BAT_CHARGE_PATH, TRUE),
                          EvWrite(BAT_CHARGE_PATH, FormatU8(limit), w.batWrite),
                          EvConfigWrite>>,
              config |-> cfg1, store |-> ConfigWrite(cfg1)]

\* set_charge_limit storing and persisting the limit before it opens the file
set_charge_limit_StoreFirst(limit, cfg, st, w) ==
    LET cfg1 == [cfg EXCEPT !.bat_charge_limit = limit]
        st1 == ConfigWrite(cfg1)
    IN  IF ~w.batOpen
        THEN [result |-> "IoError",
              trace |-> RangeWarn(limit) \o
                        <<EvConfigWrite, EvOpen(BAT_CHARGE_PATH, FALSE),
                          EvWarn("Failed to open battery charge limit path")>>,
              config |-> cfg1, store |-> st1]
        ELSE [result |-> "Ok",
              trace |-> RangeWarn(limit) \o
                        <<EvConfigWrite, EvOpen(BAT_CHARGE_PATH, TRUE),
                          EvWrite(BAT_CHARGE_PATH, FormatU8(limit), w.batWrite)>>,
              config |-> cfg1, store |-> st1]

\* RogCore::set_charge_limit: [result, trace, config, store]
set_charge_limit(limit, cfg, st, w) ==
    IF ~w.batOpen
    THEN [result |-> "IoError",
          trace |-> RangeWarn(limit) \o
                    <<EvOpen(BAT_CHARGE_PATH, FALSE),
                      EvWarn("Failed to open battery charge limit path")>>,
          config |-> cfg, store |-> st]
    ELSE LET cfg1 == [cfg EXCEPT !.bat_charge_limit = limit]
         IN  [result |-> "Ok",
              trace |-> RangeWarn(limit) \o
                        <<EvOpen(BAT_CHARGE_PATH, TRUE),
                          EvWrite(BAT_CHARGE_PATH, FormatU8(limit), w.batWrite),
                          EvConfigWrite>>,
              config |-> cfg1, store |-> ConfigWrite(cfg1)]

\* RogCore::bat_charge_limit_reload: [result, trace, config, store]
bat_charge_limit_reload(cfg, st, w) ==
    LET cfg0 == ConfigRead(st)
        r == set_charge_limit(cfg0.bat_charge_limit, cfg0, st, w)
    IN  [result |-> r.result, trace |-> <<EvConfigRead>> \o r.trace,
         config |-> r.config, store |-> r.store]

InitCharge ==
    /\ config \in ChargeConfigs
    /\ store = config
    /\ world \in ChargeWorlds
    /\ call = [op |-> "none"]
    /\ result = "None"
    /\ trace = <<>>
    /\ run = <<>>
    /\ chain = <<>>

SetChargeLimit ==
    \E limit \in ChargeValues :
        /\ Record([op |-> "set_charge_limit", n |-> limit],
                  set_charge_limit(limit, config, store, world))
        /\ UNCHANGED <<world, run, chain>>

BatChargeLimitReload ==
    /\ Record([op |-> "bat_charge_limit_reload"],
              bat_charge_limit_reload(config, store, world))
    /\ UNCHANGED <<world, run, chain>>

\* fan_mode_step, outside a run of consecutive steps
FanModeStepOnce ==
    /\ Record([op |-> "fan_mode_step"], fan_mode_step(config, store, world))
    /\ UNCHANGED <<world, run, chain>>

\* the environment changes between calls: the fan files, the CPU interface
\* or the charge limit file
EnvChangeCharge ==
    \E w \in ChargeWorlds :
        /\ w # world
        /\ \/ FanPart(w) = FanPart(world) /\ CpuPart(w) = CpuPart(world)
           \/ FanPart(w) = FanPart(world) /\ BatPart(w) = BatPart(world)
           \/ CpuPart(w) = CpuPart(world) /\ BatPart(w) = BatPart(world)
        /\ world' = w
        /\ Forget
        /\ UNCHANGED <<config, store, run, chain>>

\* an out-of-band edit of the persisted fan_mode or bat_charge_limit
ExternalEditCharge ==
    \E c \in ChargeConfigs :
        /\ c # store
        /\ c.fan_mode = store.fan_mode \/ c.bat_charge_limit = store.bat_charge_limit
        /\ store' = c
        /\ Forget
        /\ UNCHANGED <<config, world, run, chain>>

NextCharge ==
    \/ SetChargeLimit
    \/ BatChargeLimitReload
    \/ SetFanMode
    \/ FanModeStepOnce
    \/ EnvChangeCharge
    \/ ExternalEditCharge

SpecCharge == InitCharge /\ [][NextCharge]_vars

(* Properties of the assignments to the Config, under SpecCharge *)

IsBatWrite(e) == e.ev = "write" /\ e.path = BAT_CHARGE_PATH

IsRangeWarn(e) == e.ev = "warn" /\ e.msg = RangeWarn(0)[1].msg

\* the decimal text of a limit the model draws
DecimalText(n) ==
    CASE n = 19 -> "19" [] n = 20 -> "20" [] n = 100 -> "100"
      [] n = 101 -> "101" [] n = 255 -> "255"

\* C13: set_charge_limit does not reject a limit outside 20..100: for every
\* limit, if the charge limit file opens, the decimal text of the limit is
\* written to it, config.bat_charge_limit becomes the limit, the
\* configuration is persisted and the call returns success; the range check
\* only gives a warning.
ChargeLimitLenient ==
    (call.op = "set_charge_limit" /\ world.batOpen) =>
        LET w == SelectSeq(trace, IsBatWrite) IN
        /\ result = "Ok"
        /\ Len(w) = 1 /\ w[1].data = DecimalText(call.n)
        /\ config.bat_charge_limit = call.n
        /\ store = config
        /\ trace[Len(trace)] = EvConfigWrite
        /\ (call.n < 20 \/ call.n > 100) <=>
               (\E i \in 1..Len(trace) : IsRangeWarn(trace[i]))

\* the limit 255 was written, stored and persisted, with a warning
ChargeLimitLenientWitness ==
    /\ call.op = "set_charge_limit" /\ call.n = U8Max
    /\ world.batOpen
    /\ result = "Ok"
    /\ config.bat_charge_limit = U8Max /\ store.bat_charge_limit = U8Max
    /\ \E i \in 1..Len(trace) : IsRangeWarn(trace[i])
    /\ \E i \in 1..Len(trace) : IsBatWrite(trace[i]) /\ trace[i].data = "255"

HasConfigWrite(t) == \E i \in 1..Len(t) : t[i] = EvConfigWrite

\* C20: the configuration is assigned to and persisted only after the
\* control path is opened: if set_fan_mode fails to open the fan path, or
\* set_charge_limit the charge limit file, the call returns an error with
\* config (fan_mode, bat_charge_limit) unchanged and Config::write not
\* called; and every assignment to fan_mode or bat_charge_limit is followed
\* by a Config::write within the same call.
AssignAfterOpen ==
    [][/\ (call'.op = "set_fan_mode" /\ ~FanOpens(world)) =>
             /\ result' \in {"NotFound", "IoError"}
             /\ config' = config /\ store' = store
             /\ ~HasConfigWrite(trace')
       /\ (call'.op = "set_charge_limit" /\ ~world.batOpen) =>
             /\ result' = "IoError"
             /\ config' = config /\ store' = store
             /\ ~HasConfigWrite(trace')
       /\ call'.op \in {"set_fan_mode", "set_charge_limit", "fan_mode_step",
                         "bat_charge_limit_reload"} =>
             LET before == IF call'.op \in {"set_fan_mode", "set_charge_limit"}
                           THEN config ELSE store
             IN  /\ \A i \in 1..Len(trace') :
                       trace'[i] = EvConfigWrite =>
                           \E j \in 1..(i - 1) : trace'[j].ev = "open" /\ trace'[j].ok
                 /\ (config'.fan_mode # before.fan_mode
                     \/ config'.bat_charge_limit # before.bat_charge_limit) =>
                        (HasConfigWrite(trace') /\ store' = config')]_vars

\* set_charge_limit failed to open the file and left another limit stored
AssignAfterOpenWitness ==
    /\ call.op = "set_charge_limit"
    /\ ~world.batOpen
    /\ result = "IoError"
    /\ config.bat_charge_limit # call.n
    /\ store.bat_charge_limit # call.n

====
